---- MODULE Spec2Model ----
(***************************************************************************)
(* Model of export_to_godot_tileset.mjs: the Tiled -> Godot tileset        *)
(* exporter.  The host calls customTilesetFormat.write(tileset, fileName); *)
(* the callback constructs a GodotTilesetExporter, runs iterateTiles and   *)
(* writes the rendered template.  Each loop iteration of iterateTiles is   *)
(* one step of the model.                                                  *)
(*                                                                         *)
(* Text is modelled by its structure: shapesResources is the sequence of   *)
(* sub_resource blocks, a joined list is a sequence of tokens (numbers or  *)
(* entries, each followed by a separator token) and the regular expression *)
(* /,\s*$/ removes a trailing separator token.  The rendered template is   *)
(* the record of the values substituted into it; the tileset metadata that *)
(* is copied verbatim (name, margin, tile size, spacing) is left out.      *)
(***************************************************************************)
EXTENDS Integers, Sequences, FiniteSets, TLC

\* ------------------------------------------------------------------ bounds
MaxColumns == 2
MaxGridTiles == 4
MaxTiles == 2
MaxObjects == 2
MaxPolyLen == 4
MaxRuns == 2

VARIABLES
    tileset,             \* the tileset loaded in the editor: [columns, tiles]
    calls,               \* invocations of the write callback the host still makes
    pc,                  \* position of the callback: idle, loop, objects, write
    fileName,            \* this.fileName
    shapesResources,     \* this.shapesResources
    shapes,              \* this.shapes
    navpolyMap,          \* this.navpolyMap
    zIndexMap,           \* this.zIndexMap
    firstShapeID,        \* this.firstShapeID
    autotileCoordinates, \* local of iterateTiles
    minNavId,            \* local of iterateTiles
    index,               \* local of iterateTiles (0-based)
    oIndex,              \* local of iterateTiles (0-based)
    warnings,            \* messages passed to tiled.warn
    log,                 \* messages passed to tiled.log
    written              \* files committed: sequence of [fileName, text]

vars == <<tileset, calls, pc, fileName, shapesResources, shapes, navpolyMap,
          zIndexMap, firstShapeID, autotileCoordinates, minNavId, index, oIndex,
          warnings, log, written>>

\* ------------------------------------------------------------ text tokens
Sep == [kind |-> "sep", n |-> 0]

Num(v) == [kind |-> "num", n |-> v]

\* str.replace(/,\s*$/, "")
StripTrailingSep(s) ==
    IF Len(s) > 0 /\ s[Len(s)] = Sep THEN SubSeq(s, 1, Len(s) - 1) ELSE s

\* the text "0", the text "" and the text 'SubResource( id )'
TextZero == [kind |-> "text", text |-> "0", id |-> 0]

TextEmpty == [kind |-> "text", text |-> "", id |-> 0]

SubResourceText(id) == [kind |-> "SubResource", text |-> "", id |-> id]

\* ------------------------------------------------------------- parseFloat
\* A string is a sequence of one-character strings.  A number is
\* mantissa * 10^-scale, normalised; NaN is a value of its own.
Digits == {"0", "1", "2", "3", "4", "5", "6", "7", "8", "9"}

DigitVal(c) ==
    CASE c = "0" -> 0 [] c = "1" -> 1 [] c = "2" -> 2 [] c = "3" -> 3
      [] c = "4" -> 4 [] c = "5" -> 5 [] c = "6" -> 6 [] c = "7" -> 7
      [] c = "8" -> 8 [] c = "9" -> 9

NaN == [nan |-> TRUE, m |-> 0, e |-> 0]

RECURSIVE Normalise(_, _)
Normalise(m, e) ==
    IF e > 0 /\ m % 10 = 0 THEN Normalise(m \div 10, e - 1)
    ELSE [nan |-> FALSE, m |-> m, e |-> e]

\* first position >= p of s that holds no character of cs (Len(s)+1 if none)
RECURSIVE SkipWhile(_, _, _)
SkipWhile(s, p, cs) ==
    IF p <= Len(s) /\ s[p] \in cs THEN SkipWhile(s, p + 1, cs) ELSE p

\* value of the digits s[p..q-1] appended to the decimal number acc
RECURSIVE DigitsValue(_, _, _, _)
DigitsValue(s, p, q, acc) ==
    IF p >= q THEN acc ELSE DigitsValue(s, p + 1, q, 10 * acc + DigitVal(s[p]))

\* parseFloat(string): leading blanks, an optional sign, then the longest
\* prefix digits[.digits] or .digits; anything after it is ignored; NaN when
\* there is no such prefix.  (Exponents and "Infinity" are not modelled; no
\* input string of the model holds them.)
ParseFloat(s) ==
    LET p0 == SkipWhile(s, 1, {" "})
        neg == p0 <= Len(s) /\ s[p0] = "-"
        p1 == IF p0 <= Len(s) /\ s[p0] \in {"+", "-"} THEN p0 + 1 ELSE p0
        p2 == SkipWhile(s, p1, Digits)
        dot == p2 <= Len(s) /\ s[p2] = "."
        p3 == IF dot THEN SkipWhile(s, p2 + 1, Digits) ELSE p2
        nInt == p2 - p1
        nFrac == IF dot THEN p3 - (p2 + 1) ELSE 0
        mant == DigitsValue(s, p2 + 1, p3, DigitsValue(s, p1, p2, 0))
    IN  IF nInt + nFrac = 0 THEN NaN
        ELSE Normalise(IF neg THEN 0 - mant ELSE mant, nFrac)

\* ------------------------------------------------------- shape templates
\* coordinateString of getCollisionShapePolygon / getNavigationShapePolygon:
\* forEach appends "x, y, " per point
\* variant: the y coordinate is anchored at object.x
RECURSIVE CoordinateStringAnchorX(_, _)
CoordinateStringAnchorX(object, k) ==
    IF k = 0 THEN <<>>
    ELSE CoordinateStringAnchorX(object, k - 1)
         \o <<Num(object.x + object.polygon[k].x), Sep,
              Num(object.x + object.polygon[k].y), Sep>>

RECURSIVE CoordinateString(_, _)
CoordinateString(object, k) ==
    IF k = 0 THEN <<>>
    ELSE CoordinateString(object, k - 1)
         \o <<Num(object.x + object.polygon[k].x), Sep,
              Num(object.y + object.polygon[k].y), Sep>>

RectangleString(object) ==
    LET topLeft == [x |-> object.x, y |-> object.y]
        topRight == [x |-> object.x + object.width, y |-> object.y]
        bottomRight == [x |-> object.x + object.width, y |-> object.y + object.height]
        bottomLeft == [x |-> object.x, y |-> object.y + object.height]
    IN  <<Num(topLeft.x), Sep, Num(topLeft.y), Sep, Num(topRight.x), Sep, Num(topRight.y), Sep,
          Num(bottomRight.x), Sep, Num(bottomRight.y), Sep, Num(bottomLeft.x), Sep, Num(bottomLeft.y)>>

GetCollisionShapePolygon(id, object) ==
    [type |-> "ConvexPolygonShape2D", id |-> id,
     points |-> StripTrailingSep(CoordinateString(object, Len(object.polygon))),
     polygons |-> <<>>]

GetCollisionShapeRectangle(id, object) ==
    [type |-> "ConvexPolygonShape2D", id |-> id,
     points |-> RectangleString(object),
     polygons |-> <<>>]

GetNavigationShapePolygon(id, object) ==
    [type |-> "NavigationPolygon", id |-> id,
     points |-> StripTrailingSep(CoordinateString(object, Len(object.polygon))),
     polygons |-> [k \in 1..Len(object.polygon) |-> k - 1]]

GetNavigationShapeRectangle(id, object) ==
    [type |-> "NavigationPolygon", id |-> id,
     points |-> RectangleString(object),
     polygons |-> <<0, 1, 2, 3>>]

\* variant: the one-way flag is not rendered
GetShapesTemplateNotOneWay(coordinates, isOneWay, shapeID) ==
    <<[kind |-> "entry", autotile_coord |-> [x |-> coordinates.x, y |-> coordinates.y],
       one_way |-> FALSE, shape |-> shapeID],
      [kind |-> "sep", autotile_coord |-> [x |-> 0, y |-> 0], one_way |-> FALSE, shape |-> 0]>>

\* one dictionary entry followed by ", "
GetShapesTemplate(coordinates, isOneWay, shapeID) ==
    <<[kind |-> "entry", autotile_coord |-> [x |-> coordinates.x, y |-> coordinates.y],
       one_way |-> isOneWay, shape |-> shapeID],
      [kind |-> "sep", autotile_coord |-> [x |-> 0, y |-> 0], one_way |-> FALSE, shape |-> 0]>>

ShapesSep == GetShapesTemplate([x |-> 0, y |-> 0], FALSE, 0)[2]

\* this.shapes.replace(/,\s*$/, "")
StripShapes(s) ==
    IF Len(s) > 0 /\ s[Len(s)] = ShapesSep THEN SubSeq(s, 1, Len(s) - 1) ELSE s

GetTilesetTemplate ==
    [shapesResources |-> shapesResources,
     navpoly_map |-> navpolyMap,
     z_index_map |-> zIndexMap,
     shape |-> firstShapeID,
     shapes |-> shapes]

\* ------------------------------------------------------- exporter methods
ExportShapes(tile, coordinates, isOneWay) ==
    /\ firstShapeID' = IF firstShapeID = TextEmpty THEN SubResourceText(tile.id)
                       ELSE firstShapeID
    /\ shapes' = shapes \o GetShapesTemplate(coordinates, isOneWay, tile.id)

\* variant: a rectangle needs only one positive side
ExportCollisionsEitherSide(object, tile, coordinates) ==
    LET isOneWay == object.type = "one-way"
    IN  IF Len(object.polygon) > 0
        THEN /\ shapesResources' = Append(shapesResources, GetCollisionShapePolygon(tile.id, object))
             /\ ExportShapes(tile, coordinates, isOneWay)
        ELSE IF object.width > 0 \/ object.height > 0
        THEN /\ shapesResources' = Append(shapesResources, GetCollisionShapeRectangle(tile.id, object))
             /\ ExportShapes(tile, coordinates, isOneWay)
        ELSE UNCHANGED <<shapesResources, firstShapeID, shapes>>

ExportCollisions(object, tile, coordinates) ==
    LET isOneWay == object.type = "one-way"
    IN  IF Len(object.polygon) > 0
        THEN /\ shapesResources' = Append(shapesResources, GetCollisionShapePolygon(tile.id, object))
             /\ ExportShapes(tile, coordinates, isOneWay)
        ELSE IF object.width > 0 /\ object.height > 0
        THEN /\ shapesResources' = Append(shapesResources, GetCollisionShapeRectangle(tile.id, object))
             /\ ExportShapes(tile, coordinates, isOneWay)
        ELSE UNCHANGED <<shapesResources, firstShapeID, shapes>>

ExportNavigationShape(id, coordinates) ==
    navpolyMap' = navpolyMap \o
        <<[kind |-> "Vector2", x |-> coordinates.x, y |-> coordinates.y, id |-> 0],
          [kind |-> "SubResource", x |-> 0, y |-> 0, id |-> id]>>

ExportNavigations(object, id, coordinates) ==
    IF Len(object.polygon) > 0
    THEN /\ shapesResources' = Append(shapesResources, GetNavigationShapePolygon(id, object))
         /\ ExportNavigationShape(id, coordinates)
    ELSE IF object.width > 0 /\ object.height > 0
    THEN /\ shapesResources' = Append(shapesResources, GetNavigationShapeRectangle(id, object))
         /\ ExportNavigationShape(id, coordinates)
    ELSE UNCHANGED <<shapesResources, navpolyMap>>

\* variant: the navpoly map is shared by all exporters
ConstructorSharedNavpolyMap(fn) ==
    /\ fileName' = fn
    /\ shapesResources' = <<>>
    /\ shapes' = <<>>
    /\ navpolyMap' = navpolyMap
    /\ zIndexMap' = <<>>
    /\ firstShapeID' = TextZero

\* new GodotTilesetExporter(tileset, fileName)
Constructor(fn) ==
    /\ fileName' = fn
    /\ shapesResources' = <<>>
    /\ shapes' = <<>>
    /\ navpolyMap' = <<>>
    /\ zIndexMap' = <<>>
    /\ firstShapeID' = TextZero

\* tiles.reduce((id, tile) => Math.max(id, tile.id), 0)
RECURSIVE ReduceMax(_, _)
ReduceMax(tiles, k) ==
    IF k = 0 THEN 0
    ELSE LET id == ReduceMax(tiles, k - 1)
         IN  IF tiles[k].id > id THEN tiles[k].id ELSE id

\* variant: the seed is the number of tiles
MinNavIdSeedLength(tiles) == Len(tiles)

MinNavIdSeed(tiles) == ReduceMax(tiles, Len(tiles))

\* variant: wraps one column too late
WrapAroundLate(coordinates, tilesetColumns) ==
    IF coordinates.x > tilesetColumns
    THEN [x |-> 0, y |-> coordinates.y + 1]
    ELSE coordinates

\* the check at the top of the loop body
WrapAround(coordinates, tilesetColumns) ==
    IF (coordinates.x + 1) > tilesetColumns
    THEN [x |-> 0, y |-> coordinates.y + 1]
    ELSE coordinates

\* variant: moves two columns per tile
AdvanceTwo(coordinates) == [x |-> coordinates.x + 2, y |-> coordinates.y]

\* autotileCoordinates.x += 1
Advance(coordinates) == [x |-> coordinates.x + 1, y |-> coordinates.y]

\* variant: the triple is pushed even when the value is NaN
ZIndexStepPushNaN(tile, coordinates) ==
    LET zIndex == tile.zIndex
    IN  IF zIndex.defined
        THEN LET zIndexFloat == ParseFloat(zIndex.chars)
             IN  /\ warnings' = IF zIndexFloat.nan
                                 THEN Append(warnings, [id |-> tile.id, value |-> zIndex.chars])
                                 ELSE warnings
                 /\ zIndexMap' = Append(zIndexMap, <<coordinates.x, coordinates.y, zIndexFloat>>)
        ELSE UNCHANGED <<zIndexMap, warnings>>

\* the godot:z_index handling of one tile
ZIndexStep(tile, coordinates) ==
    LET zIndex == tile.zIndex
    IN  IF zIndex.defined
        THEN LET zIndexFloat == ParseFloat(zIndex.chars)
             IN  IF zIndexFloat.nan
                 THEN /\ warnings' = Append(warnings, [id |-> tile.id, value |-> zIndex.chars])
                      /\ UNCHANGED zIndexMap
                 ELSE /\ zIndexMap' = Append(zIndexMap, <<coordinates.x, coordinates.y, zIndexFloat>>)
                      /\ UNCHANGED warnings
        ELSE UNCHANGED <<zIndexMap, warnings>>

\* ---------------------------------------------------------------- actions
Tiles == tileset.tiles

CurrentTile == Tiles[index + 1]

\* the objects the inner loop runs over; none when objectGroup is null
TileObjects(tile) ==
    IF tile.objectGroup.isNull THEN <<>> ELSE tile.objectGroup.objects

\* the destination path the host passes on its k-th export
Destination(k) == [path |-> "export", n |-> k]

\* the host calls customTilesetFormat.write(tileset, fileName): the
\* constructor and the statements of iterateTiles before its loop
Write(fn) ==
    /\ pc = "idle"
    /\ calls > 0
    /\ calls' = calls - 1
    /\ Constructor(fn)
    /\ autotileCoordinates' = [x |-> 0, y |-> 0]
    /\ minNavId' = MinNavIdSeed(Tiles)
    /\ index' = 0
    /\ oIndex' = 0
    /\ pc' = "loop"
    /\ UNCHANGED <<tileset, warnings, log, written>>

\* the loop body up to the object loop: wraparound check and z-index
TileBegin ==
    /\ pc = "loop"
    /\ index < Len(Tiles)
    /\ autotileCoordinates' = WrapAround(autotileCoordinates, tileset.columns)
    /\ ZIndexStep(CurrentTile, autotileCoordinates')
    /\ oIndex' = 0
    /\ pc' = "objects"
    /\ UNCHANGED <<tileset, calls, fileName, shapesResources, shapes, navpolyMap,
                   firstShapeID, minNavId, index, log, written>>

\* one iteration of the object loop, navigation branch
NavigationObject ==
    /\ pc = "objects"
    /\ oIndex < Len(TileObjects(CurrentTile))
    /\ LET object == TileObjects(CurrentTile)[oIndex + 1]
       IN  /\ object.type = "navigation"
           /\ minNavId' = minNavId + 1
           /\ ExportNavigations(object, minNavId', autotileCoordinates)
    /\ oIndex' = oIndex + 1
    /\ UNCHANGED <<tileset, calls, pc, fileName, shapes, zIndexMap, firstShapeID,
                   autotileCoordinates, index, warnings, log, written>>

\* one iteration of the object loop, collision branch
CollisionObject ==
    /\ pc = "objects"
    /\ oIndex < Len(TileObjects(CurrentTile))
    /\ LET object == TileObjects(CurrentTile)[oIndex + 1]
       IN  /\ object.type # "navigation"
           /\ ExportCollisions(object, CurrentTile, autotileCoordinates)
    /\ oIndex' = oIndex + 1
    /\ UNCHANGED <<tileset, calls, pc, fileName, navpolyMap, zIndexMap, minNavId,
                   autotileCoordinates, index, warnings, log, written>>

\* the end of the loop body
TileEnd ==
    /\ pc = "objects"
    /\ oIndex >= Len(TileObjects(CurrentTile))
    /\ autotileCoordinates' = Advance(autotileCoordinates)
    /\ index' = index + 1
    /\ pc' = "loop"
    /\ UNCHANGED <<tileset, calls, fileName, shapesResources, shapes, navpolyMap,
                   zIndexMap, firstShapeID, minNavId, oIndex, warnings, log, written>>

\* the loop ends; the trailing separator of this.shapes is removed
IterateDone ==
    /\ pc = "loop"
    /\ index >= Len(Tiles)
    /\ shapes' = StripShapes(shapes)
    /\ pc' = "write"
    /\ UNCHANGED <<tileset, calls, fileName, shapesResources, navpolyMap, zIndexMap,
                   firstShapeID, autotileCoordinates, minNavId, index, oIndex,
                   warnings, log, written>>

\* writeToFile and the success message
WriteToFile ==
    /\ pc = "write"
    /\ written' = Append(written, [fileName |-> fileName, text |-> GetTilesetTemplate])
    /\ log' = Append(log, fileName)
    /\ pc' = "idle"
    /\ UNCHANGED <<tileset, calls, fileName, shapesResources, shapes, navpolyMap,
                   zIndexMap, firstShapeID, autotileCoordinates, minNavId, index,
                   oIndex, warnings>>

Next ==
    \/ \E fn \in {Destination(Len(written) + 1)} : Write(fn)
    \/ TileBegin
    \/ NavigationObject
    \/ CollisionObject
    \/ TileEnd
    \/ IterateDone
    \/ WriteToFile

\* ----------------------------------------------------------------- inputs
Undefined == [defined |-> FALSE, chars |-> <<>>]

Str(chars) == [defined |-> TRUE, chars |-> chars]

NullGroup == [isNull |-> TRUE, objects |-> <<>>]

Group(objects) == [isNull |-> FALSE, objects |-> objects]

Square == <<[x |-> 0, y |-> 0], [x |-> 10, y |-> 0], [x |-> 10, y |-> 10], [x |-> 0, y |-> 10]>>

RectObject(type) ==
    [type |-> type, polygon |-> <<>>, x |-> 2, y |-> 3, width |-> 4, height |-> 6]

PolyObject(type) ==
    [type |-> type, polygon |-> Square, x |-> 5, y |-> 5, width |-> 0, height |-> 0]

\* no polygon and a zero height
FlatObject(type) ==
    [type |-> type, polygon |-> <<>>, x |-> 2, y |-> 3, width |-> 4, height |-> 0]

ObjectTypes == {"navigation", "one-way", ""}

\* tiles of a tileset image: ids 0..n-1, contents from a few kinds that
\* cover every z-index case and zero, one and two objects
GridTileKinds ==
    { [zIndex |-> Undefined, objectGroup |-> NullGroup],
      [zIndex |-> Str(<<"1", ".", "5">>), objectGroup |-> Group(<<>>)],
      [zIndex |-> Str(<<"a", "b", "c">>), objectGroup |-> Group(<<RectObject("")>>)],
      [zIndex |-> Undefined,
       objectGroup |-> Group(<<RectObject("navigation"), PolyObject("one-way")>>)],
      [zIndex |-> Str(<<" ", "-", ".", "5", "0", "x">>),
       objectGroup |-> Group(<<FlatObject("navigation")>>)] }

GridTiles(kinds) ==
    [i \in 1..Len(kinds) |->
        [id |-> i - 1, zIndex |-> kinds[i].zIndex, objectGroup |-> kinds[i].objectGroup]]

GridTilesets ==
    { [columns |-> c, tiles |-> GridTiles(kinds)] :
        c \in 1..MaxColumns,
        kinds \in UNION { [1..n -> GridTileKinds] : n \in 0..MaxGridTiles } }

\* tile ids: 0..n-1, odd ids with gaps, or n-1..0
IdLayouts == {"contiguous", "gapped", "reversed"}

TileId(layout, n, i) ==
    CASE layout = "contiguous" -> i - 1
      [] layout = "gapped" -> 2 * i + 1
      [] layout = "reversed" -> n - i

\* tiles whose objects are rectangles or flat objects of every role, at most
\* MaxObjects objects in the whole tileset
MainObjects == { RectObject(t) : t \in ObjectTypes } \cup { FlatObject(t) : t \in ObjectTypes }

ObjectGroups(budget) ==
    {NullGroup} \cup
    { Group(objects) : objects \in UNION { [1..k -> MainObjects] : k \in 0..budget } }

RECURSIVE GroupSeqs(_, _)
GroupSeqs(n, budget) ==
    IF n = 0 THEN {<<>>}
    ELSE UNION { { <<g>> \o rest : rest \in GroupSeqs(n - 1, budget - Len(g.objects)) } :
                 g \in ObjectGroups(budget) }

MainTiles(layout, groups) ==
    [i \in 1..Len(groups) |->
        [id |-> TileId(layout, Len(groups), i), zIndex |-> Undefined, objectGroup |-> groups[i]]]

MainTilesets ==
    { [columns |-> c, tiles |-> MainTiles(layout, groups)] :
        c \in 1..MaxColumns,
        layout \in IdLayouts,
        groups \in UNION { GroupSeqs(n, MaxObjects) : n \in 0..MaxTiles } }

\* one tile owning one object of any geometry
PolyPoints == { [x |-> 0, y |-> 0], [x |-> 10, y |-> 0], [x |-> 10, y |-> 10], [x |-> 0, y |-> 10] }

Anchors == { [x |-> 5, y |-> 5], [x |-> 2, y |-> 3] }

ShapeObjects ==
    { [type |-> t, polygon |-> poly, x |-> a.x, y |-> a.y, width |-> w, height |-> h] :
        t \in ObjectTypes,
        poly \in UNION { [1..n -> PolyPoints] : n \in 0..MaxPolyLen },
        a \in Anchors,
        w \in {0, 4},
        h \in {0, 6} }

ShapeTilesets ==
    { [columns |-> 1,
       tiles |-> <<[id |-> 1, zIndex |-> Undefined, objectGroup |-> Group(<<o>>)]>>] :
        o \in ShapeObjects }

\* the state before the host calls the write callback
Idle(ts, n) ==
    /\ tileset = ts
    /\ calls = n
    /\ pc = "idle"
    /\ fileName = Destination(0)
    /\ shapesResources = <<>>
    /\ shapes = <<>>
    /\ navpolyMap = <<>>
    /\ zIndexMap = <<>>
    /\ firstShapeID = TextZero
    /\ autotileCoordinates = [x |-> 0, y |-> 0]
    /\ minNavId = 0
    /\ index = 0
    /\ oIndex = 0
    /\ warnings = <<>>
    /\ log = <<>>
    /\ written = <<>>

InitGrid == \E ts \in GridTilesets : Idle(ts, 1)

SpecGrid == InitGrid /\ [][Next]_vars

Init == \E ts \in MainTilesets : Idle(ts, 1)

Spec == Init /\ [][Next]_vars

InitShape == \E ts \in ShapeTilesets : Idle(ts, 1)

SpecShape == InitShape /\ [][Next]_vars

InitIdem == \E ts \in GridTilesets : Idle(ts, MaxRuns)

SpecIdem == InitIdem /\ [][Next]_vars

\* ------------------------------------------------------ claim vocabulary
Columns == tileset.columns

\* row-major position of the tile at 0-based position i
RowMajor(i, c) == [x |-> i % c, y |-> i \div c]

\* does the object produce a shape
Builds(object) == Len(object.polygon) > 0 \/ (object.width > 0 /\ object.height > 0)

\* the object the next step of the object loop processes
AtObject == pc = "objects" /\ oIndex < Len(TileObjects(CurrentTile))

NextObject == TileObjects(CurrentTile)[oIndex + 1]

\* number of objects of the tile at 1-based position i already processed
ObjectsDone(i) ==
    IF i <= index THEN Len(TileObjects(Tiles[i]))
    ELSE IF i = index + 1 /\ pc = "objects" THEN oIndex
    ELSE 0

\* number of tiles whose z-index property has been handled
TilesBegun == IF pc = "objects" THEN index + 1 ELSE index

BlocksOfType(type) == SelectSeq(shapesResources, LAMBDA b : b.type = type)

BlockIds(blocks) == [k \in 1..Len(blocks) |-> blocks[k].id]

TileIdSet == { Tiles[i].id : i \in 1..Len(Tiles) }

MaxTileId == CHOOSE m \in TileIdSet \cup {0} : \A n \in TileIdSet \cup {0} : n <= m

\* ------------------------------------------------------------------- C1
\* C1: the coordinate in use while the tile at position index is processed,
\* and the coordinate of every entry appended to the z-index map, the shapes
\* list and the navpoly map for that tile, is (index mod C, index div C),
\* whatever the number of objects of the tiles.
C1_RowMajorCoordinates ==
    [][ /\ pc' = "objects" => autotileCoordinates' = RowMajor(index', Columns)
        /\ Len(zIndexMap') > Len(zIndexMap) =>
              LET t == zIndexMap'[Len(zIndexMap')]
              IN  [x |-> t[1], y |-> t[2]] = RowMajor(index, Columns)
        /\ Len(shapes') > Len(shapes) =>
              shapes'[Len(shapes') - 1].autotile_coord = RowMajor(index, Columns)
        /\ Len(navpolyMap') > Len(navpolyMap) =>
              LET v == navpolyMap'[Len(navpolyMap') - 1]
              IN  [x |-> v.x, y |-> v.y] = RowMajor(index, Columns)
      ]_vars

\* the fourth tile of a two-column tileset, owning no object group, sits at
\* (1, 1) after earlier tiles recorded shapes and z-indices
C1_Witness ==
    /\ pc = "objects"
    /\ Columns = 2
    /\ index = 3
    /\ CurrentTile.objectGroup.isNull
    /\ autotileCoordinates = [x |-> 1, y |-> 1]
    /\ Len(shapes) > 0
    /\ Len(navpolyMap) > 0
    /\ Len(zIndexMap) > 0

\* ------------------------------------------------------------------- C9
\* nextCoordinate of the Coordinate Mapper contract
NextCoordinate(current, columns) ==
    IF current.x + 1 > columns THEN [x |-> 0, y |-> current.y + 1]
    ELSE [x |-> current.x + 1, y |-> current.y]

RECURSIVE IterateNextCoordinate(_, _)
IterateNextCoordinate(i, columns) ==
    IF i = 0 THEN [x |-> 0, y |-> 0]
    ELSE NextCoordinate(IterateNextCoordinate(i - 1, columns), columns)

\* the step that wraps as soon as the next column would be outside the grid
NextInGrid(current, columns) ==
    IF current.x + 1 >= columns THEN [x |-> 0, y |-> current.y + 1]
    ELSE [x |-> current.x + 1, y |-> current.y]

RECURSIVE IterateNextInGrid(_, _)
IterateNextInGrid(i, columns) ==
    IF i = 0 THEN [x |-> 0, y |-> 0]
    ELSE NextInGrid(IterateNextInGrid(i - 1, columns), columns)

\* C9 as stated: the coordinate recorded for the tile at position index is the
\* one obtained by iterating nextCoordinate index times from (0,0), and the
\* cursor is not adjusted before the tile's objects are processed.
C9_Original ==
    [][ /\ pc' = "objects" => autotileCoordinates' = IterateNextCoordinate(index', Columns)
        /\ (pc = "loop" /\ pc' = "objects") => autotileCoordinates' = autotileCoordinates
      ]_vars

\* C9 amended: the cursor is changed at two places per tile.  Before the tile
\* is processed it is reset to (0, y+1) when x + 1 > columns; after the tile's
\* objects it has x incremented by one; object steps leave it alone.  The
\* coordinate recorded for a tile is the cursor after the reset, and equals
\* the iteration from (0,0) of the step that wraps when x + 1 >= columns.
C9_Amended ==
    [][ /\ (pc = "loop" /\ pc' = "objects") =>
              autotileCoordinates' =
                  IF autotileCoordinates.x + 1 > Columns
                  THEN [x |-> 0, y |-> autotileCoordinates.y + 1]
                  ELSE autotileCoordinates
        /\ (pc = "objects" /\ pc' = "loop") =>
              autotileCoordinates' =
                  [x |-> autotileCoordinates.x + 1, y |-> autotileCoordinates.y]
        /\ (pc = "objects" /\ pc' = "objects") => autotileCoordinates' = autotileCoordinates
        /\ pc' = "objects" => autotileCoordinates' = IterateNextInGrid(index', Columns)
      ]_vars

\* the third tile of a two-column tileset was moved to the start of row 1
\* before its objects are processed
C9_Witness ==
    /\ pc = "objects"
    /\ Columns = 2
    /\ index = 2
    /\ oIndex = 0
    /\ Len(TileObjects(CurrentTile)) > 0
    /\ autotileCoordinates = [x |-> 0, y |-> 1]

\* ------------------------------------------------------------------- C5
RECURSIVE ExpectedZIndexMap(_)
ExpectedZIndexMap(k) ==
    IF k = 0 THEN <<>>
    ELSE LET z == Tiles[k].zIndex
             c == RowMajor(k - 1, Columns)
         IN  IF z.defined /\ ~ParseFloat(z.chars).nan
             THEN Append(ExpectedZIndexMap(k - 1), <<c.x, c.y, ParseFloat(z.chars)>>)
             ELSE ExpectedZIndexMap(k - 1)

RECURSIVE ExpectedWarnings(_)
ExpectedWarnings(k) ==
    IF k = 0 THEN <<>>
    ELSE LET z == Tiles[k].zIndex
         IN  IF z.defined /\ ParseFloat(z.chars).nan
             THEN Append(ExpectedWarnings(k - 1), [id |-> Tiles[k].id, value |-> z.chars])
             ELSE ExpectedWarnings(k - 1)

\* C5: after the z-index of the first k tiles has been handled, the z-index
\* map holds, in tile order, one triple (x, y, value) at the tile's coordinate
\* for each tile whose property is present and parses to a number, and the
\* warnings hold one message (tile id, raw value) for each tile whose property
\* is present and does not parse; a warning does not stop the export: the
\* file written holds the triples of all the tiles.
C5_ZIndexPerTile ==
    /\ zIndexMap = ExpectedZIndexMap(TilesBegun)
    /\ warnings = ExpectedWarnings(TilesBegun)
    /\ Len(zIndexMap) <= TilesBegun
    /\ Len(written) > 0 => written[1].text.z_index_map = ExpectedZIndexMap(Len(Tiles))

\* an export written after a warning on the first tile, a tile without the
\* property and two tiles with a parseable one
C5_Witness ==
    /\ Len(written) = 1
    /\ Len(Tiles) = 4
    /\ Tiles[1].zIndex = Str(<<"a", "b", "c">>)
    /\ ~Tiles[2].zIndex.defined
    /\ warnings = <<[id |-> 0, value |-> <<"a", "b", "c">>]>>
    /\ Len(written[1].text.z_index_map) = 2
    /\ written[1].text.z_index_map[1][3] = [nan |-> FALSE, m |-> 15, e |-> 1]

\* ------------------------------------------------------------------- C2
NavIds == BlockIds(BlocksOfType("NavigationPolygon"))

\* C2: the identifiers of the navigation blocks, in generation order, are
\* strictly increasing, each greater than the maximum tile id (and than 0) and
\* so different from every tile id.
C2_NavIdsIncreasing ==
    /\ \A i, j \in 1..Len(NavIds) : i < j => NavIds[i] < NavIds[j]
    /\ \A i \in 1..Len(NavIds) :
          /\ NavIds[i] > MaxTileId
          /\ NavIds[i] > 0
          /\ NavIds[i] \notin TileIdSet

\* two navigation shapes built in a tileset whose largest id is not the
\* first tile's, the export written
C2_Witness ==
    /\ Len(written) = 1
    /\ Len(NavIds) = 2
    /\ Len(Tiles) = 2
    /\ Tiles[1].id < Tiles[2].id
    /\ NavIds[1] = MaxTileId + 1

\* ------------------------------------------------------------------- C3
CollisionBlocks == BlocksOfType("ConvexPolygonShape2D")

\* C3: the value rendered for 0/shape refers to the first collision shape
\* built when there is one, and is the text "0" when there is none.
C3_FirstShapeRendered ==
    Len(written) > 0 =>
        written[1].text.shape =
            IF Len(CollisionBlocks) > 0 THEN SubResourceText(CollisionBlocks[1].id)
            ELSE TextZero

\* ------------------------------------------------------------------- C4
\* the next object has an empty polygon and not both width and height > 0
AtSkippedObject == AtObject /\ ~Builds(NextObject)

\* C4 as stated: processing such an object changes nothing of the export
\* state, the navigation identifier counter included.
C4_Original ==
    [][ AtSkippedObject =>
            UNCHANGED <<shapesResources, shapes, navpolyMap, zIndexMap, firstShapeID,
                        minNavId, autotileCoordinates, index, warnings, log, written>>
      ]_vars

\* C4 amended: processing such an object appends no shape text, no shapes
\* entry and no navpoly entry, logs nothing and leaves the first-shape value
\* and the cursor alone; the navigation identifier counter is left alone for a
\* one-way or default object and is incremented by one for a navigation object.
C4_Amended ==
    [][ AtSkippedObject =>
            /\ UNCHANGED <<shapesResources, shapes, navpolyMap, zIndexMap, firstShapeID,
                           autotileCoordinates, index, warnings, log, written>>
            /\ minNavId' = IF NextObject.type = "navigation" THEN minNavId + 1 ELSE minNavId
      ]_vars

\* a skipped navigation object was followed by a built one, which got the
\* identifier after the one the skipped object consumed
C4_Witness ==
    /\ Len(written) = 1
    /\ Len(Tiles) = 1
    /\ TileObjects(Tiles[1]) = <<FlatObject("navigation"), RectObject("navigation")>>
    /\ Len(shapesResources) = 1
    /\ shapesResources[1].id = MaxTileId + 2

\* ------------------------------------------------------------------- C6
RECURSIVE ExpectedTileEntries(_, _)
ExpectedTileEntries(i, k) ==
    IF k = 0 THEN <<>>
    ELSE LET o == TileObjects(Tiles[i])[k]
         IN  IF o.type # "navigation" /\ Builds(o)
             THEN Append(ExpectedTileEntries(i, k - 1),
                         [autotile_coord |-> RowMajor(i - 1, Columns),
                          one_way |-> (o.type = "one-way"),
                          shape |-> Tiles[i].id])
             ELSE ExpectedTileEntries(i, k - 1)

RECURSIVE ExpectedEntries(_)
ExpectedEntries(i) ==
    IF i = 0 THEN <<>>
    ELSE ExpectedEntries(i - 1) \o ExpectedTileEntries(i, ObjectsDone(i))

ShapeEntries ==
    LET es == SelectSeq(shapes, LAMBDA t : t.kind = "entry")
    IN  [k \in 1..Len(es) |->
            [autotile_coord |-> es[k].autotile_coord, one_way |-> es[k].one_way,
             shape |-> es[k].shape]]

\* C6: the shapes list holds one entry per collision block built, in the same
\* order; the k-th entry has the coordinate and the id of the tile owning the
\* k-th collision shape and is one-way exactly when the object that produced
\* it is tagged "one-way"; navigation objects add none.
C6_OneEntryPerCollisionShape ==
    /\ ShapeEntries = ExpectedEntries(Len(Tiles))
    /\ BlockIds(CollisionBlocks) = [k \in 1..Len(ShapeEntries) |-> ShapeEntries[k].shape]

\* two objects of the second tile carry different one-way flags and the
\* same shape identifier
C6_Witness ==
    /\ Len(written) = 1
    /\ Len(Tiles) = 2
    /\ Len(NavIds) = 0
    /\ Len(ShapeEntries) = 2
    /\ ShapeEntries[1].one_way
    /\ ~ShapeEntries[2].one_way
    /\ ShapeEntries[1].shape = ShapeEntries[2].shape
    /\ ShapeEntries[1].autotile_coord = RowMajor(1, Columns)

\* ------------------------------------------------------------------ C10
\* C10: with pairwise distinct tile ids, no two sub_resource blocks of the
\* shape-resource text carry the same identifier.
C10_DistinctBlockIds ==
    \A i, j \in 1..Len(shapesResources) :
        i # j => shapesResources[i].id # shapesResources[j].id

\* ------------------------------------------------------------------- C7
\* C7: exports of the same tileset to different paths write the same text,
\* and every invocation starts its loop from the same values: counter at the
\* maximum tile id, cursor at (0,0), empty accumulators, first-shape "0".
C7_Idempotent ==
    /\ \A i, j \in 1..Len(written) :
          written[i].fileName # written[j].fileName => written[i].text = written[j].text
    /\ (pc = "loop" /\ index = 0) =>
          /\ minNavId = MaxTileId
          /\ autotileCoordinates = [x |-> 0, y |-> 0]
          /\ shapesResources = <<>> /\ shapes = <<>>
          /\ navpolyMap = <<>> /\ zIndexMap = <<>>
          /\ firstShapeID = TextZero

\* two exports to two paths, of a tileset with navigation shapes, collision
\* shapes and z-indices
C7_Witness ==
    /\ Len(written) = 2
    /\ written[1].fileName # written[2].fileName
    /\ Len(written[2].text.navpoly_map) > 0
    /\ Len(written[2].text.shapes) > 0
    /\ Len(written[2].text.z_index_map) > 0

\* ------------------------------------------------------------------- C8
\* the numbers of a coordinate list, which must be "n, n, ..., n"
ListNumbers(points) ==
    LET ns == SelectSeq(points, LAMBDA t : t.kind = "num")
    IN  [k \in 1..Len(ns) |-> ns[k].n]

WellFormedList(points) ==
    /\ Len(points) % 2 = 1
    /\ \A k \in 1..Len(points) : points[k].kind = IF k % 2 = 1 THEN "num" ELSE "sep"

ExpectedVertices(o) ==
    IF Len(o.polygon) > 0
    THEN [k \in 1..(2 * Len(o.polygon)) |->
             IF k % 2 = 1 THEN o.x + o.polygon[(k + 1) \div 2].x
             ELSE o.y + o.polygon[k \div 2].y]
    ELSE <<o.x, o.y, o.x + o.width, o.y, o.x + o.width, o.y + o.height, o.x, o.y + o.height>>

ShapeObject == TileObjects(Tiles[1])[1]

\* C8: the vertex list of the block built from an object, in either role, is
\* anchor + point for each polygon point in order when the polygon is
\* non-empty (whatever the width and height), and otherwise the four corners
\* (x,y), (x+w,y), (x+w,y+h), (x,y+h).
C8_VertexList ==
    /\ Len(shapesResources) = (IF ObjectsDone(1) = 1 /\ Builds(ShapeObject) THEN 1 ELSE 0)
    /\ \A k \in 1..Len(shapesResources) :
          /\ WellFormedList(shapesResources[k].points)
          /\ ListNumbers(shapesResources[k].points) = ExpectedVertices(ShapeObject)
          /\ shapesResources[k].type =
                IF ShapeObject.type = "navigation" THEN "NavigationPolygon"
                ELSE "ConvexPolygonShape2D"

\* the square anchored at (5,5), on an object that also has a width and a
\* height, built as a navigation polygon
C8_Witness ==
    /\ Len(written) = 1
    /\ ShapeObject.polygon = Square
    /\ ShapeObject.width > 0 /\ ShapeObject.height > 0
    /\ ShapeObject.type = "navigation"
    /\ Len(shapesResources) = 1
    /\ ListNumbers(shapesResources[1].points) = <<5, 5, 15, 5, 15, 15, 5, 15>>

====
